---- MODULE Spec2Model ----
(***************************************************************************)
(* A model of vulkano's raw buffer wrapper (vulkano/src/buffer/sys.rs),    *)
(* of two command-buffer validity checkers                                 *)
(* (vulkano/src/command_buffer/validity/{index_buffer,push_constants}.rs)  *)
(* and of the future chain and the event loop of                           *)
(* examples/src/bin/fullscreen.rs.                                         *)
(*                                                                         *)
(* The Vulkan driver is an external collaborator.  Its answers are chosen  *)
(* nondeterministically among the answers a conformant driver may give:    *)
(* the alignment of VkMemoryRequirements and the min*OffsetAlignment       *)
(* limits are powers of two, memoryTypeBits is not zero, and the size of   *)
(* VkMemoryRequirements is at least the size the buffer was created with.  *)
(* SpecNewAnyDriver alone also gives the two answers that the              *)
(* debug_assert!s of UnsafeBuffer::new are there to catch.                 *)
(***************************************************************************)
EXTENDS Integers, Sequences, FiniteSets, TLC

VARIABLES
    debug_assertions,   \* build configuration: are debug_assert!s compiled in
    call,               \* the arguments of the call under study
    ret,                \* its outcome; NotCalled before the call
    buffers,            \* the UnsafeBuffer wrappers, by the handle each one owns
    native,             \* what the driver knows of each vk::Buffer handle
    last,               \* the last operation on a wrapper and its outcome
    future_state,       \* the completion state of each node of the future chain
    future_alive,       \* whether each node still holds its resources
    future_released,    \* how many times each node's resources were released
    loop                \* the state of the event loop of the fullscreen example

callVars == <<call, ret>>

bufferVars == <<buffers, native, last>>

futureVars == <<future_state, future_alive, future_released>>

loopVars == <<loop>>

vars == <<debug_assertions, call, ret, buffers, native, last, future_state,
          future_alive, future_released, loop>>

----------------------------------------------------------------------------
(* Bounds of the model *)

MaxSize == 2
MaxPad == 1
MaxAlignLog == 2
NumMemoryTypes == 2
MaxBuffers == 2
MaxBinds == 2

----------------------------------------------------------------------------
(* Values *)

RECURSIVE Pow2(_)
Pow2(n) == IF n = 0 THEN 1 ELSE 2 * Pow2(n - 1)

\* Alignments a conformant driver reports: powers of two.
Alignments == { Pow2(k) : k \in 0..MaxAlignLog }

Sizes == 1..MaxSize

NotCalled == [tag |-> "NotCalled"]
Panic(m) == [tag |-> "Panic", msg |-> m]
Err(e) == [tag |-> "Err", err |-> e]
Ok(v) == [tag |-> "Ok", val |-> v]

\* The vk::Buffer handles the driver hands out.
Handles == 1..MaxBuffers

\* No wrapper owns the handle (yet, or any more).
NoWrapper == [state |-> "None"]

Dropped == [state |-> "Dropped"]

\* The driver's record of a handle: created by CreateBuffer, its memory
\* requirements, the binds and destroys it has seen, and the calls that named
\* it while it was not a live buffer.
NoHandle == [created |-> FALSE, reqs |-> <<>>, bound |-> 0, destroyed |-> 0, stale |-> 0]

NoOp == [op |-> "none"]

BuffersIdle ==
    /\ buffers = [h \in Handles |-> NoWrapper]
    /\ native = [h \in Handles |-> NoHandle]
    /\ last = NoOp

\* The nodes of the chain of one frame:
\* previous_frame_end.join(acquire_future).then_execute(..)
\*     .then_swapchain_present(..).then_signal_fence_and_flush()
FutureNodes ==
    { "previous_frame_end", "acquire_future", "join", "then_execute",
      "then_swapchain_present", "then_signal_fence" }

FuturesIdle ==
    /\ future_state = [n \in FutureNodes |-> "Absent"]
    /\ future_alive = [n \in FutureNodes |-> FALSE]
    /\ future_released = [n \in FutureNodes |-> 0]

\* The event loop is not running.
LoopIdle == loop = [running |-> FALSE]

\* The fields of BufferUsage; a usage is the set of the fields that are true.
UsageFields ==
    { "transfer_source", "transfer_dest", "uniform_texel_buffer",
      "storage_texel_buffer", "uniform_buffer", "storage_buffer",
      "index_buffer", "vertex_buffer", "indirect_buffer" }

BufferUsage_none == {}
BufferUsage_all == UsageFields

\* The usage fields UnsafeBuffer::new and bind_memory read.
AlignedUsageFields ==
    { "uniform_texel_buffer", "storage_texel_buffer", "uniform_buffer",
      "storage_buffer" }

\* usage_to_bits: the vk::BufferUsageFlags bit of each field that is set.
UsageBit(f) ==
    CASE f = "transfer_source" -> "BUFFER_USAGE_TRANSFER_SRC_BIT"
      [] f = "transfer_dest" -> "BUFFER_USAGE_TRANSFER_DST_BIT"
      [] f = "uniform_texel_buffer" -> "BUFFER_USAGE_UNIFORM_TEXEL_BUFFER_BIT"
      [] f = "storage_texel_buffer" -> "BUFFER_USAGE_STORAGE_TEXEL_BUFFER_BIT"
      [] f = "uniform_buffer" -> "BUFFER_USAGE_UNIFORM_BUFFER_BIT"
      [] f = "storage_buffer" -> "BUFFER_USAGE_STORAGE_BUFFER_BIT"
      [] f = "index_buffer" -> "BUFFER_USAGE_INDEX_BUFFER_BIT"
      [] f = "vertex_buffer" -> "BUFFER_USAGE_VERTEX_BUFFER_BIT"
      [] f = "indirect_buffer" -> "BUFFER_USAGE_INDIRECT_BUFFER_BIT"

usage_to_bits(usage) == { UsageBit(f) : f \in usage }

\* SparseLevel and SparseLevel::none()
SparseLevel == [sparse : BOOLEAN, sparse_residency : BOOLEAN, sparse_aliased : BOOLEAN]

SparseLevel_none ==
    [sparse |-> FALSE, sparse_residency |-> FALSE, sparse_aliased |-> FALSE]

\* SparseLevel::to_flags
to_flags(self) ==
    (IF self.sparse THEN {"BUFFER_CREATE_SPARSE_BINDING_BIT"} ELSE {})
    \cup (IF self.sparse_residency THEN {"BUFFER_CREATE_SPARSE_RESIDENCY_BIT"} ELSE {})
    \cup (IF self.sparse_aliased THEN {"BUFFER_CREATE_SPARSE_ALIASED_BIT"} ELSE {})

\* The sparse features of device.enabled_features() that new reads.
Features ==
    [sparse_binding : BOOLEAN, sparse_residency_buffer : BOOLEAN,
     sparse_residency_aliased : BOOLEAN]

Features_none ==
    [sparse_binding |-> FALSE, sparse_residency_buffer |-> FALSE,
     sparse_residency_aliased |-> FALSE]

Features_all ==
    [sparse_binding |-> TRUE, sparse_residency_buffer |-> TRUE,
     sparse_residency_aliased |-> TRUE]

\* The limits of device.physical_device().limits() that new and bind_memory read.
Limits ==
    [min_texel_buffer_offset_alignment : Alignments,
     min_storage_buffer_offset_alignment : Alignments,
     min_uniform_buffer_offset_alignment : Alignments]

\* Sharing<I>: Exclusive, or Concurrent over some queue families.
Sharings == { [mode |-> "Exclusive", ids |-> <<>>], [mode |-> "Concurrent", ids |-> <<0, 1>>] }

----------------------------------------------------------------------------
(* The driver *)

CreateResults ==
    { "SUCCESS", "ERROR_OUT_OF_HOST_MEMORY", "ERROR_OUT_OF_DEVICE_MEMORY",
      "ERROR_DEVICE_LOST" }

MemoryTypeBits == 1..(Pow2(NumMemoryTypes) - 1)

\* What vkCreateBuffer and vkGetBufferMemoryRequirements may answer for a buffer
\* of `size` bytes.
DriverAnswers(size) ==
    [create : CreateResults,
     size : { size + p : p \in 0..MaxPad },
     alignment : Alignments,
     memoryTypeBits : MemoryTypeBits]

----------------------------------------------------------------------------
(* vulkano/src/buffer/sys.rs *)

\* impl From<Error> for BufferCreationError, reached through try!(check_errors(..))
BufferCreationError_from(err) ==
    IF err \in {"ERROR_OUT_OF_HOST_MEMORY", "ERROR_OUT_OF_DEVICE_MEMORY"}
    THEN Err("OomError(" \o err \o ")")
    ELSE Panic("unexpected error")

\* align with the "- 1" forgotten: a multiple of al is pushed to the next one.
align_NoMinusOne(val, al) == al * (1 + val \div al)

\* fn align(val, al) inside UnsafeBuffer::new
align(val, al) == al * (1 + (val - 1) \div al)

\* The widening written to the wrong field of `output`.
WidenRequirements_WrongField(output, usage, limits) ==
    LET o1 == IF "uniform_texel_buffer" \in usage \/ "storage_texel_buffer" \in usage
              THEN [output EXCEPT !.size =
                      align(output.alignment, limits.min_texel_buffer_offset_alignment)]
              ELSE output
        o2 == IF "storage_buffer" \in usage
              THEN [o1 EXCEPT !.size =
                      align(o1.alignment, limits.min_storage_buffer_offset_alignment)]
              ELSE o1
        o3 == IF "uniform_buffer" \in usage
              THEN [o2 EXCEPT !.size =
                      align(o2.alignment, limits.min_uniform_buffer_offset_alignment)]
              ELSE o2
    IN o3

\* The widening without the step for uniform buffers.
WidenRequirements_NoUniform(output, usage, limits) ==
    LET o1 == IF "uniform_texel_buffer" \in usage \/ "storage_texel_buffer" \in usage
              THEN [output EXCEPT !.alignment =
                      align(output.alignment, limits.min_texel_buffer_offset_alignment)]
              ELSE output
        o2 == IF "storage_buffer" \in usage
              THEN [o1 EXCEPT !.alignment =
                      align(o1.alignment, limits.min_storage_buffer_offset_alignment)]
              ELSE o1
    IN o2

\* The extra requirements UnsafeBuffer::new enforces by hand on `output`: its
\* alignment is widened by each device limit the usage implies.
WidenRequirements(output, usage, limits) ==
    LET o1 == IF "uniform_texel_buffer" \in usage \/ "storage_texel_buffer" \in usage
              THEN [output EXCEPT !.alignment =
                      align(output.alignment, limits.min_texel_buffer_offset_alignment)]
              ELSE output
        o2 == IF "storage_buffer" \in usage
              THEN [o1 EXCEPT !.alignment =
                      align(o1.alignment, limits.min_storage_buffer_offset_alignment)]
              ELSE o1
        o3 == IF "uniform_buffer" \in usage
              THEN [o2 EXCEPT !.alignment =
                      align(o2.alignment, limits.min_uniform_buffer_offset_alignment)]
              ELSE o2
    IN o3

\* impl From<vk::MemoryRequirements> for MemoryRequirements (output.into())
MemoryRequirements_from(output) ==
    [size |-> output.size, alignment |-> output.alignment,
     memory_type_bits |-> output.memoryTypeBits]

\* The sparse checks without the assertion on sparse_aliased.
CheckSparse_NoAliasedAssert(device, sparse) ==
    IF ~(sparse.sparse \/ ~sparse.sparse_residency)
    THEN Panic("Can't enable sparse residency without enabling sparse binding as well")
    ELSE IF sparse.sparse /\ ~device.enabled_features.sparse_binding
    THEN Err("SparseBindingFeatureNotEnabled")
    ELSE IF sparse.sparse_residency /\ ~device.enabled_features.sparse_residency_buffer
    THEN Err("SparseResidencyBufferFeatureNotEnabled")
    ELSE IF sparse.sparse_aliased /\ ~device.enabled_features.sparse_residency_aliased
    THEN Err("SparseResidencyAliasedFeatureNotEnabled")
    ELSE Ok("sparse")

\* The sparse checks with the residency feature tested before the binding feature.
CheckSparse_ResidencyFirst(device, sparse) ==
    IF ~(sparse.sparse \/ ~sparse.sparse_residency)
    THEN Panic("Can't enable sparse residency without enabling sparse binding as well")
    ELSE IF ~(sparse.sparse \/ ~sparse.sparse_aliased)
    THEN Panic("Can't enable sparse aliasing without enabling sparse binding as well")
    ELSE IF sparse.sparse_residency /\ ~device.enabled_features.sparse_residency_buffer
    THEN Err("SparseResidencyBufferFeatureNotEnabled")
    ELSE IF sparse.sparse /\ ~device.enabled_features.sparse_binding
    THEN Err("SparseBindingFeatureNotEnabled")
    ELSE IF sparse.sparse_aliased /\ ~device.enabled_features.sparse_residency_aliased
    THEN Err("SparseResidencyAliasedFeatureNotEnabled")
    ELSE Ok("sparse")

\* The sparse checks with the binding feature required of every buffer.
CheckSparse_Unguarded(device, sparse) ==
    IF ~(sparse.sparse \/ ~sparse.sparse_residency)
    THEN Panic("Can't enable sparse residency without enabling sparse binding as well")
    ELSE IF ~(sparse.sparse \/ ~sparse.sparse_aliased)
    THEN Panic("Can't enable sparse aliasing without enabling sparse binding as well")
    ELSE IF ~device.enabled_features.sparse_binding
    THEN Err("SparseBindingFeatureNotEnabled")
    ELSE IF sparse.sparse_residency /\ ~device.enabled_features.sparse_residency_buffer
    THEN Err("SparseResidencyBufferFeatureNotEnabled")
    ELSE IF sparse.sparse_aliased /\ ~device.enabled_features.sparse_residency_aliased
    THEN Err("SparseResidencyAliasedFeatureNotEnabled")
    ELSE Ok("sparse")

\* The sparse checks that open UnsafeBuffer::new; Ok when all of them pass.
CheckSparse(device, sparse) ==
    IF ~(sparse.sparse \/ ~sparse.sparse_residency)
    THEN Panic("Can't enable sparse residency without enabling sparse binding as well")
    ELSE IF ~(sparse.sparse \/ ~sparse.sparse_aliased)
    THEN Panic("Can't enable sparse aliasing without enabling sparse binding as well")
    ELSE IF sparse.sparse /\ ~device.enabled_features.sparse_binding
    THEN Err("SparseBindingFeatureNotEnabled")
    ELSE IF sparse.sparse_residency /\ ~device.enabled_features.sparse_residency_buffer
    THEN Err("SparseResidencyBufferFeatureNotEnabled")
    ELSE IF sparse.sparse_aliased /\ ~device.enabled_features.sparse_residency_aliased
    THEN Err("SparseResidencyAliasedFeatureNotEnabled")
    ELSE Ok("sparse")

\* UnsafeBuffer::new.  `handle` is the vk::Buffer the driver hands out and `drv`
\* the driver's answers.  The outcome carries the native calls the body made.
UnsafeBuffer_new(debug, device, size, usage, sharing, sparse, handle, drv) ==
    LET usage_bits == usage_to_bits(usage)
        checked == CheckSparse(device, sparse)
        infos == [flags |-> to_flags(sparse), size |-> size, usage |-> usage_bits,
                  sharingMode |-> sharing.mode,
                  queueFamilyIndexCount |-> Len(sharing.ids)]
        created == <<[fn |-> "CreateBuffer", device |-> device.id, infos |-> infos,
                      result |-> drv.create, buffer |-> handle]>>
        queried == created \o
                   <<[fn |-> "GetBufferMemoryRequirements", device |-> device.id,
                      buffer |-> handle,
                      output |-> [size |-> drv.size, alignment |-> drv.alignment,
                                  memoryTypeBits |-> drv.memoryTypeBits]]>>
        mem_reqs == WidenRequirements(MemoryRequirements_from(drv), usage,
                                      device.limits)
        obj == [buffer |-> handle, device |-> device.id, size |-> size,
                usage |-> usage_bits]
    IN  IF checked.tag # "Ok"
        THEN [res |-> checked, native |-> <<>>]
        ELSE IF drv.create # "SUCCESS"
        THEN [res |-> BufferCreationError_from(drv.create), native |-> created]
        ELSE IF debug /\ ~(drv.size >= size)
        THEN [res |-> Panic("assertion failed: output.size >= size as u64"),
              native |-> queried]
        ELSE IF debug /\ ~(drv.memoryTypeBits # 0)
        THEN [res |-> Panic("assertion failed: output.memoryTypeBits != 0"),
              native |-> queried]
        ELSE [res |-> Ok([obj |-> obj, mem_reqs |-> mem_reqs]), native |-> queried]

----------------------------------------------------------------------------
(* UnsafeBuffer::new as a function of its arguments.  Init draws the        *)
(* arguments and the device; the action makes the call.                     *)

Device(id, features, limits) ==
    [id |-> id, enabled_features |-> features, limits |-> limits]

\* Devices whose three alignment limits agree.
UniformLimits == { [min_texel_buffer_offset_alignment |-> a,
                    min_storage_buffer_offset_alignment |-> a,
                    min_uniform_buffer_offset_alignment |-> a] : a \in Alignments }

NewCall(device, size, usage, sharing, sparse) ==
    [fn |-> "UnsafeBuffer::new", device |-> device, size |-> size, usage |-> usage,
     sharing |-> sharing, sparse |-> sparse]

\* Every feature set and every sparse level.
InitNewSparse ==
    /\ debug_assertions \in BOOLEAN
    /\ call \in { NewCall(Device(1, f, l), s, u, sh, sp) :
                    f \in Features, l \in UniformLimits, s \in Sizes,
                    u \in {BufferUsage_none, {"vertex_buffer"}, BufferUsage_all},
                    sh \in Sharings, sp \in SparseLevel }
    /\ ret = NotCalled
    /\ BuffersIdle
    /\ FuturesIdle
    /\ LoopIdle

\* Every usage over the fields that widen the alignment, and every limit.
InitNewAlign ==
    /\ debug_assertions \in BOOLEAN
    /\ call \in { NewCall(Device(1, f, l), s, u, sh, sp) :
                    f \in {Features_none, Features_all}, l \in Limits, s \in Sizes,
                    u \in SUBSET AlignedUsageFields,
                    sh \in {CHOOSE x \in Sharings : x.mode = "Exclusive"},
                    sp \in {SparseLevel_none, [sparse |-> TRUE, sparse_residency |-> TRUE,
                                               sparse_aliased |-> TRUE]} }
    /\ ret = NotCalled
    /\ BuffersIdle
    /\ FuturesIdle
    /\ LoopIdle

New ==
    /\ ret = NotCalled
    /\ call.fn = "UnsafeBuffer::new"
    /\ \E drv \in DriverAnswers(call.size) :
          ret' = UnsafeBuffer_new(debug_assertions, call.device, call.size, call.usage,
                                  call.sharing, call.sparse, 1, drv)
    /\ UNCHANGED <<debug_assertions, call, bufferVars, futureVars, loopVars>>

NextNew == New

SpecNewSparse == InitNewSparse /\ [][NextNew]_vars

SpecNewAlign == InitNewAlign /\ [][NextNew]_vars

\* The answers of a driver that may also break the two properties new asserts
\* of GetBufferMemoryRequirements in a build with debug assertions: a size below
\* the one asked for, and an empty set of memory types.
AnyDriverAnswers(size) ==
    [create : CreateResults,
     size : 0..(size + MaxPad),
     alignment : Alignments,
     memoryTypeBits : 0..(Pow2(NumMemoryTypes) - 1)]

NewAnyDriver ==
    /\ ret = NotCalled
    /\ call.fn = "UnsafeBuffer::new"
    /\ \E drv \in AnyDriverAnswers(call.size) :
          ret' = UnsafeBuffer_new(debug_assertions, call.device, call.size, call.usage,
                                  call.sharing, call.sparse, 1, drv)
    /\ UNCHANGED <<debug_assertions, call, bufferVars, futureVars, loopVars>>

NextNewAnyDriver == NewAnyDriver

SpecNewAnyDriver == InitNewSparse /\ [][NextNewAnyDriver]_vars

\* The multiples of a returned alignment tried as offsets of a bind.
MaxMultiple == 3

----------------------------------------------------------------------------
(* vulkano/src/command_buffer/validity *)

MaxLen == 3

\* The length of the iterator of tests::num_indices: 0 .. 500u32.
TestLen == 500

\* The types that implement Index, and mem::size_of of each.
IndexTypes == {"u16", "u32"}

size_of(ty) == IF ty = "u16" THEN 2 ELSE 4

\* CpuAccessibleBuffer::from_iter(device, usage, _, iter) over `n` elements of
\* type `ty`: a typed buffer that wraps an UnsafeBuffer of n * size_of(ty) bytes.
CpuAccessibleBuffer_from_iter(device, usage, ty, n, handle) ==
    [inner |-> [buffer |-> [buffer |-> handle, device |-> device.id,
                            size |-> n * size_of(ty), usage |-> usage_to_bits(usage)],
                offset |-> 0],
     content |-> ty]

\* TypedBufferAccess::len: the number of elements of the content type.
len(buffer) == buffer.inner.buffer.size \div size_of(buffer.content)

\* UnsafeBuffer::usage_index_buffer and usage_vertex_buffer
usage_index_buffer(self) == "BUFFER_USAGE_INDEX_BUFFER_BIT" \in self.usage

usage_vertex_buffer(self) == "BUFFER_USAGE_VERTEX_BUFFER_BIT" \in self.usage

\* check_index_buffer testing the vertex-buffer flag.
check_index_buffer_VertexFlag(device, buffer) ==
    IF buffer.inner.buffer.device # device.id
    THEN Panic("assertion failed: (left == right)")
    ELSE IF ~usage_vertex_buffer(buffer.inner.buffer)
    THEN Err("BufferMissingUsage")
    ELSE Ok([num_indices |-> len(buffer)])

\* check_index_buffer testing the usage before the device.
check_index_buffer_UsageFirst(device, buffer) ==
    IF ~usage_index_buffer(buffer.inner.buffer)
    THEN Err("BufferMissingUsage")
    ELSE IF buffer.inner.buffer.device # device.id
    THEN Panic("assertion failed: (left == right)")
    ELSE Ok([num_indices |-> len(buffer)])

\* check_index_buffer
check_index_buffer(device, buffer) ==
    IF buffer.inner.buffer.device # device.id
    THEN Panic("assertion failed: (left == right)")
    ELSE IF ~usage_index_buffer(buffer.inner.buffer)
    THEN Err("BufferMissingUsage")
    ELSE Ok([num_indices |-> len(buffer)])

\* The shapes of push constants a caller may pass.
PushConstantsTypes == {"()", "f32", "[f32; 4]", "[[f32; 4]; 4]"}

\* A pipeline layout is known here by its implementation of
\* PipelineLayoutPushConstantsCompatible<Pc>: any predicate over the shapes.
PipelineLayouts == [compatible : SUBSET PushConstantsTypes]

is_compatible(pipeline, push_constants) == push_constants \in pipeline.compatible

\* check_push_constants_validity with the test inverted.
check_push_constants_validity_Inverted(pipeline, push_constants) ==
    IF is_compatible(pipeline, push_constants)
    THEN Err("IncompatiblePushConstants")
    ELSE Ok("()")

\* check_push_constants_validity
check_push_constants_validity(pipeline, push_constants) ==
    IF ~is_compatible(pipeline, push_constants)
    THEN Err("IncompatiblePushConstants")
    ELSE Ok("()")

\* The devices of the validity tests: gfx_dev_and_queue!() twice.
ValidityDevices ==
    { Device(id, Features_none, CHOOSE l \in UniformLimits : TRUE) : id \in {1, 2} }

ValidityUsages ==
    { BufferUsage_none, {"index_buffer"}, {"vertex_buffer"},
      {"index_buffer", "vertex_buffer"}, {"transfer_source", "storage_buffer"},
      BufferUsage_all \ {"index_buffer"}, BufferUsage_all }

IndexCalls ==
    { [fn |-> "check_index_buffer", device |-> d,
       buffer |-> CpuAccessibleBuffer_from_iter(owner, u, ty, n, 1),
       owner |-> owner, usage |-> u, elements |-> n] :
         d \in ValidityDevices, owner \in ValidityDevices, u \in ValidityUsages,
         ty \in IndexTypes, n \in (1..MaxLen) \cup {TestLen} }

PushConstantsCalls ==
    { [fn |-> "check_push_constants_validity", pipeline |-> pl, push_constants |-> pc] :
         pl \in PipelineLayouts, pc \in PushConstantsTypes }

InitValidity ==
    /\ debug_assertions \in BOOLEAN
    /\ call \in IndexCalls \cup PushConstantsCalls
    /\ ret = NotCalled
    /\ BuffersIdle
    /\ FuturesIdle
    /\ LoopIdle

CheckIndexBuffer ==
    /\ ret = NotCalled
    /\ call.fn = "check_index_buffer"
    /\ ret' = [res |-> check_index_buffer(call.device, call.buffer), native |-> <<>>]
    /\ UNCHANGED <<debug_assertions, call, bufferVars, futureVars, loopVars>>

CheckPushConstantsValidity ==
    /\ ret = NotCalled
    /\ call.fn = "check_push_constants_validity"
    /\ ret' = [res |-> check_push_constants_validity(call.pipeline, call.push_constants),
               native |-> <<>>]
    /\ UNCHANGED <<debug_assertions, call, bufferVars, futureVars, loopVars>>

NextValidity == CheckIndexBuffer \/ CheckPushConstantsValidity

SpecValidity == InitValidity /\ [][NextValidity]_vars

----------------------------------------------------------------------------
(* The life of an UnsafeBuffer: new, bind_memory, the queries, Drop.         *)
(* A wrapper is neither Clone nor Copy and every method borrows it, so the  *)
(* operations below exist only for a wrapper that is alive.                 *)

\* DeviceMemory objects a caller may bind: a size and the id of a memory type.
Memories == [size : 1..(MaxSize + MaxPad), memory_type : 0..(NumMemoryTypes - 1)]

Offsets == 0..MaxSize

BindResults == {"SUCCESS", "ERROR_OUT_OF_HOST_MEMORY", "ERROR_OUT_OF_DEVICE_MEMORY"}

\* mem_reqs.memoryTypeBits & (1 << id) != 0
HasBit(bits, id) == (bits \div Pow2(id)) % 2 = 1

\* The first debug_assert! of bind_memory; memory.size() - offset is a usize
\* subtraction, which overflows (a panic where debug assertions are on) when the
\* offset passes the end of the memory.
BindRequirementsHold(mem_reqs, memory, offset) ==
    /\ offset <= memory.size
    /\ mem_reqs.size <= memory.size - offset
    /\ offset % mem_reqs.alignment = 0
    /\ HasBit(mem_reqs.memoryTypeBits, memory.memory_type)

\* The limit assertions without the one on uniform buffers.
BindLimitsHold_NoUniform(self, limits, offset) ==
    /\ ("BUFFER_USAGE_UNIFORM_TEXEL_BUFFER_BIT" \in self.usage
          \/ "BUFFER_USAGE_STORAGE_TEXEL_BUFFER_BIT" \in self.usage)
        => offset % limits.min_texel_buffer_offset_alignment = 0
    /\ "BUFFER_USAGE_STORAGE_BUFFER_BIT" \in self.usage
        => offset % limits.min_storage_buffer_offset_alignment = 0

\* The debug_assert!s of bind_memory on the device limits the usage implies.
BindLimitsHold(self, limits, offset) ==
    /\ ("BUFFER_USAGE_UNIFORM_TEXEL_BUFFER_BIT" \in self.usage
          \/ "BUFFER_USAGE_STORAGE_TEXEL_BUFFER_BIT" \in self.usage)
        => offset % limits.min_texel_buffer_offset_alignment = 0
    /\ "BUFFER_USAGE_STORAGE_BUFFER_BIT" \in self.usage
        => offset % limits.min_storage_buffer_offset_alignment = 0
    /\ "BUFFER_USAGE_UNIFORM_BUFFER_BIT" \in self.usage
        => offset % limits.min_uniform_buffer_offset_alignment = 0

\* impl From<Error> for OomError, reached through try!(check_errors(..))
OomError_from(err) ==
    IF err \in {"ERROR_OUT_OF_HOST_MEMORY", "ERROR_OUT_OF_DEVICE_MEMORY"}
    THEN Err("OomError(" \o err \o ")")
    ELSE Panic("unexpected error")

\* bind_memory that repeats the native bind.
bind_memory_BindsTwice(debug, self, device, mem_reqs, memory, offset, result) ==
    LET queried == <<[fn |-> "GetBufferMemoryRequirements", device |-> device.id,
                      buffer |-> self.buffer, output |-> mem_reqs]>>
        bound == <<[fn |-> "BindBufferMemory", device |-> device.id,
                    buffer |-> self.buffer, memory |-> memory, offset |-> offset,
                    result |-> result]>>
    IN  IF debug /\ ~BindRequirementsHold(mem_reqs, memory, offset)
        THEN [res |-> Panic("assertion failed: mem_reqs"), native |-> queried]
        ELSE IF debug /\ ~BindLimitsHold(self, device.limits, offset)
        THEN [res |-> Panic("assertion failed: offset % limits"), native |-> queried]
        ELSE [res |-> IF result = "SUCCESS" THEN Ok("()") ELSE OomError_from(result),
              native |-> (IF debug THEN queried ELSE <<>>) \o bound \o bound]

\* UnsafeBuffer::bind_memory.  `mem_reqs` is the driver's answer to
\* GetBufferMemoryRequirements for self.buffer and `result` its answer to
\* BindBufferMemory.
bind_memory(debug, self, device, mem_reqs, memory, offset, result) ==
    LET queried == <<[fn |-> "GetBufferMemoryRequirements", device |-> device.id,
                      buffer |-> self.buffer, output |-> mem_reqs]>>
        bound == <<[fn |-> "BindBufferMemory", device |-> device.id,
                    buffer |-> self.buffer, memory |-> memory, offset |-> offset,
                    result |-> result]>>
    IN  IF debug /\ ~BindRequirementsHold(mem_reqs, memory, offset)
        THEN [res |-> Panic("assertion failed: mem_reqs"), native |-> queried]
        ELSE IF debug /\ ~BindLimitsHold(self, device.limits, offset)
        THEN [res |-> Panic("assertion failed: offset % limits"), native |-> queried]
        ELSE [res |-> IF result = "SUCCESS" THEN Ok("()") ELSE OomError_from(result),
              native |-> (IF debug THEN queried ELSE <<>>) \o bound]

\* Drop that forgets the native destroy call.
UnsafeBuffer_drop_Leak(self) == <<>>

\* impl Drop for UnsafeBuffer: the native calls of drop(&mut self).
UnsafeBuffer_drop(self) ==
    <<[fn |-> "DestroyBuffer", device |-> self.device, buffer |-> self.buffer]>>

\* The queries of UnsafeBuffer: size(), key() and the usage_*() bit tests.
Queries == {"size", "key"} \cup { "usage_" \o f : f \in {"index_buffer", "vertex_buffer", "uniform_buffer"} }

UnsafeBuffer_query(self, q) ==
    CASE q = "size" -> self.size
      [] q = "key" -> self.buffer
      [] q = "usage_index_buffer" -> usage_index_buffer(self)
      [] q = "usage_vertex_buffer" -> usage_vertex_buffer(self)
      [] q = "usage_uniform_buffer" -> "BUFFER_USAGE_UNIFORM_BUFFER_BIT" \in self.usage

\* The driver's side of one native call.
DriverCall(nat, c) ==
    LET h == c.buffer
        live == nat[h].created /\ nat[h].destroyed = 0
        stale == [nat EXCEPT ![h].stale = @ + 1]
    IN  CASE c.fn = "CreateBuffer" ->
                IF c.result = "SUCCESS"
                THEN [nat EXCEPT ![h].created = TRUE]
                ELSE nat
          [] c.fn = "GetBufferMemoryRequirements" ->
                IF live THEN [nat EXCEPT ![h].reqs = c.output] ELSE stale
          [] c.fn = "BindBufferMemory" ->
                IF ~live THEN stale
                ELSE IF c.result = "SUCCESS"
                THEN [nat EXCEPT ![h].bound = @ + 1]
                ELSE nat
          [] c.fn = "DestroyBuffer" ->
                IF live
                THEN [nat EXCEPT ![h].destroyed = @ + 1]
                ELSE [nat EXCEPT ![h].destroyed = @ + 1, ![h].stale = @ + 1]

RECURSIVE DriverCalls(_, _)
DriverCalls(nat, calls) ==
    IF calls = <<>> THEN nat
    ELSE DriverCalls(DriverCall(nat, Head(calls)), Tail(calls))

\* The device every buffer of a run is created from.
TheDevice ==
    Device(1, Features_none,
           [min_texel_buffer_offset_alignment |-> 1,
            min_storage_buffer_offset_alignment |-> 1,
            min_uniform_buffer_offset_alignment |-> Pow2(MaxAlignLog)])

LifeUsages == { {"vertex_buffer", "index_buffer"}, {"uniform_buffer"} }

\* A sparse level that passes on TheDevice, one that new rejects with an error
\* and one that makes it panic.
LifeSparse ==
    { SparseLevel_none,
      [sparse |-> TRUE, sparse_residency |-> FALSE, sparse_aliased |-> FALSE],
      [sparse |-> FALSE, sparse_residency |-> TRUE, sparse_aliased |-> FALSE] }

\* The driver's answers in the runs of a wrapper's life: no padding, no
\* alignment, every memory type.
LifeAnswers(size) ==
    { d \in DriverAnswers(size) :
        d.size = size /\ d.alignment = 1 /\ d.memoryTypeBits = Pow2(NumMemoryTypes) - 1 }

\* The memories and offsets bound in the runs of a wrapper's life: a memory too
\* small for any buffer and the largest one, at its start and one byte in.
LifeMemories == { m \in Memories : m.size \in {1, MaxSize + MaxPad} }

LifeOffsets == { o \in Offsets : o <= 1 }

InitBuffer ==
    /\ debug_assertions \in BOOLEAN
    /\ call = [fn |-> "none"]
    /\ ret = NotCalled
    /\ BuffersIdle
    /\ FuturesIdle
    /\ LoopIdle

\* UnsafeBuffer::new; the driver hands out the next handle.
BufferNew ==
    \E h \in Handles, size \in {MaxSize}, usage \in LifeUsages, sparse \in LifeSparse :
      \E drv \in LifeAnswers(size) :
        /\ ~native[h].created
        /\ \A g \in Handles : g < h => native[g].created
        /\ LET r == UnsafeBuffer_new(debug_assertions, TheDevice, size, usage,
                                     CHOOSE x \in Sharings : x.mode = "Exclusive",
                                     sparse, h, drv)
           IN  /\ native' = DriverCalls(native, r.native)
               /\ buffers' = IF r.res.tag = "Ok"
                             THEN [buffers EXCEPT ![h] =
                                     [state |-> "Alive", obj |-> r.res.val.obj]]
                             ELSE buffers
               /\ last' = [op |-> "new", handle |-> h, res |-> r.res]
        /\ UNCHANGED <<debug_assertions, callVars, futureVars, loopVars>>

\* UnsafeBuffer::bind_memory on a live wrapper.
BufferBindMemory ==
    \E h \in Handles, memory \in LifeMemories, offset \in LifeOffsets,
       result \in BindResults :
        /\ buffers[h].state = "Alive"
        /\ native[h].bound < MaxBinds
        /\ LET r == bind_memory(debug_assertions, buffers[h].obj, TheDevice,
                                native[h].reqs, memory, offset, result)
           IN  /\ native' = DriverCalls(native, r.native)
               /\ last' = [op |-> "bind_memory", handle |-> h, res |-> r.res]
        /\ UNCHANGED <<debug_assertions, callVars, buffers, futureVars, loopVars>>

\* A query of a live wrapper: no native call.
BufferQuery ==
    \E h \in Handles, q \in Queries :
        /\ buffers[h].state = "Alive"
        /\ last' = [op |-> q, handle |-> h, res |-> Ok(UnsafeBuffer_query(buffers[h].obj, q))]
        /\ UNCHANGED <<debug_assertions, callVars, buffers, native, futureVars, loopVars>>

\* The owner releases a live wrapper: Drop runs.
BufferDrop ==
    \E h \in Handles :
        /\ buffers[h].state = "Alive"
        /\ native' = DriverCalls(native, UnsafeBuffer_drop(buffers[h].obj))
        /\ buffers' = [buffers EXCEPT ![h] = Dropped]
        /\ last' = [op |-> "drop", handle |-> h, res |-> Ok("()")]
        /\ UNCHANGED <<debug_assertions, callVars, futureVars, loopVars>>

NextBuffer == BufferNew \/ BufferBindMemory \/ BufferQuery \/ BufferDrop

SpecBuffer == InitBuffer /\ [][NextBuffer]_vars

----------------------------------------------------------------------------
(* bind_memory as a function of its arguments and of the driver's answers.   *)

\* The usages of the bound buffer: none, each one that implies a limit, all.
BindUsages ==
    {BufferUsage_none, AlignedUsageFields} \cup { {f} : f \in AlignedUsageFields }

\* The requirements the driver reports for the bound buffer.
BindAnswers ==
    [size : {1, MaxSize}, alignment : Alignments, memoryTypeBits : MemoryTypeBits]

BindCall(self, device, memory, offset) ==
    [fn |-> "UnsafeBuffer::bind_memory", self |-> self, device |-> device,
     memory |-> memory, offset |-> offset]

InitBind ==
    /\ debug_assertions \in BOOLEAN
    /\ call \in { BindCall([buffer |-> 1, device |-> 1, size |-> MaxSize,
                            usage |-> usage_to_bits(u)],
                           Device(1, Features_none, l), mem, o) :
                    u \in BindUsages, l \in Limits, mem \in LifeMemories, o \in Offsets }
    /\ ret = NotCalled
    /\ BuffersIdle
    /\ FuturesIdle
    /\ LoopIdle

BindMemory ==
    /\ ret = NotCalled
    /\ call.fn = "UnsafeBuffer::bind_memory"
    /\ \E mem_reqs \in BindAnswers, result \in BindResults :
          ret' = bind_memory(debug_assertions, call.self, call.device, mem_reqs,
                             call.memory, call.offset, result)
    /\ UNCHANGED <<debug_assertions, call, bufferVars, futureVars, loopVars>>

NextBind == BindMemory

SpecBind == InitBind /\ [][NextBind]_vars

----------------------------------------------------------------------------
(* The future chain of one frame of examples/src/bin/fullscreen.rs.          *)
(* A node is Absent until it is composed, then Pending until the chain is   *)
(* flushed, then Flushed until the driver reports it Signaled or Errored.   *)

\* The chain without the join: the draw is ordered after the previous frame only.
Upstream_NoJoin(n) ==
    CASE n = "join" -> {"previous_frame_end", "acquire_future"}
      [] n = "then_execute" -> {"previous_frame_end"}
      [] n = "then_swapchain_present" -> {"then_execute"}
      [] n = "then_signal_fence" -> {"then_swapchain_present"}
      [] OTHER -> {}

\* The nodes each node of the chain is composed over.
Upstream(n) ==
    CASE n = "join" -> {"previous_frame_end", "acquire_future"}
      [] n = "then_execute" -> {"join"}
      [] n = "then_swapchain_present" -> {"then_execute"}
      [] n = "then_signal_fence" -> {"then_swapchain_present"}
      [] OTHER -> {}

Composed == { "join", "then_execute", "then_swapchain_present" }

Terminal == {"Signaled", "Errored"}

NoRelease == [n \in FutureNodes |-> 0]

\* The release counts after the nodes of `released` gave up their resources.
Release(counts, released) ==
    [n \in FutureNodes |-> IF n \in released /\ counts[n] < 2
                           THEN counts[n] + 1 ELSE counts[n]]

\* previous_frame_end is sync::now(), complete at once, or the future of the frame
\* before, flushed and perhaps already signaled; acquire_future is what
\* acquire_next_image returned.
InitFuture ==
    /\ debug_assertions \in BOOLEAN
    /\ call = [fn |-> "none"]
    /\ ret = NotCalled
    /\ BuffersIdle
    /\ LoopIdle
    /\ \E p \in {"Flushed", "Signaled"} :
          future_state = [n \in FutureNodes |->
                            IF n = "previous_frame_end" THEN p
                            ELSE IF n = "acquire_future" THEN "Pending"
                            ELSE "Absent"]
    /\ future_alive = [n \in FutureNodes |->
                          n \in {"previous_frame_end", "acquire_future"}]
    /\ future_released = NoRelease

\* join, then_execute, then_swapchain_present: a new node over live ones, which
\* it owns from then on.
Compose ==
    \E n \in Composed :
        /\ future_state[n] = "Absent"
        /\ \A u \in Upstream(n) : future_state[u] # "Absent" /\ future_alive[u]
        /\ future_state' = [future_state EXCEPT ![n] = "Pending"]
        /\ future_alive' = [future_alive EXCEPT ![n] = TRUE]
        /\ UNCHANGED <<debug_assertions, callVars, bufferVars, future_released, loopVars>>

\* then_signal_fence_and_flush: the whole chain is submitted to the driver.
ThenSignalFenceAndFlush ==
    /\ future_state["then_signal_fence"] = "Absent"
    /\ \A u \in Upstream("then_signal_fence") :
          future_state[u] # "Absent" /\ future_alive[u]
    /\ future_state' = [n \in FutureNodes |->
                           IF n = "then_signal_fence" \/ future_state[n] = "Pending"
                           THEN "Flushed" ELSE future_state[n]]
    /\ future_alive' = [future_alive EXCEPT !["then_signal_fence"] = TRUE]
    /\ UNCHANGED <<debug_assertions, callVars, bufferVars, future_released, loopVars>>

\* A failed flush that leaves what was not submitted Pending for ever.
FlushFails_LeavesPending ==
    /\ future_state["then_signal_fence"] = "Absent"
    /\ \A u \in Upstream("then_signal_fence") :
          future_state[u] # "Absent" /\ future_alive[u]
    /\ future_state' = [future_state EXCEPT !["then_signal_fence"] = "Errored"]
    /\ UNCHANGED <<debug_assertions, callVars, bufferVars, future_alive,
                   future_released, loopVars>>

\* then_signal_fence_and_flush returns an error (FlushError::OutOfDate or another):
\* the error is surfaced on every node that was not submitted, and no future of
\* the frame is returned.
FlushFails ==
    /\ future_state["then_signal_fence"] = "Absent"
    /\ \A u \in Upstream("then_signal_fence") :
          future_state[u] # "Absent" /\ future_alive[u]
    /\ future_state' = [n \in FutureNodes |->
                           IF n = "then_signal_fence" \/ future_state[n] = "Pending"
                           THEN "Errored" ELSE future_state[n]]
    /\ UNCHANGED <<debug_assertions, callVars, bufferVars, future_alive,
                   future_released, loopVars>>

\* The flush failed: the chain is stale and nobody holds a future of the frame.
FlushFailed ==
    future_state["then_signal_fence"] = "Errored" /\ ~future_alive["then_signal_fence"]

\* The chain consumed by the failed flush is dropped: its nodes are released,
\* once each of them is terminal (the previous frame may still be in flight).
DropStaleChain ==
    /\ FlushFailed
    /\ \E n \in FutureNodes : future_alive[n]
    /\ \A n \in FutureNodes : future_alive[n] => future_state[n] \in Terminal
    /\ future_alive' = [n \in FutureNodes |-> FALSE]
    /\ future_released' = Release(future_released,
                                  { n \in FutureNodes : future_alive[n] })
    /\ UNCHANGED <<debug_assertions, callVars, bufferVars, future_state, loopVars>>

\* The driver completes the work of a flushed node, after the work it depends on.
Signal ==
    \E n \in FutureNodes :
        /\ future_state[n] = "Flushed"
        /\ \A u \in Upstream(n) : future_state[u] = "Signaled"
        /\ future_state' = [future_state EXCEPT ![n] = "Signaled"]
        /\ UNCHANGED <<debug_assertions, callVars, bufferVars, future_alive,
                       future_released, loopVars>>

\* The driver reports an error for a flushed node.
Fail ==
    \E n \in FutureNodes :
        /\ future_state[n] = "Flushed"
        /\ future_state' = [future_state EXCEPT ![n] = "Errored"]
        /\ UNCHANGED <<debug_assertions, callVars, bufferVars, future_alive,
                       future_released, loopVars>>

\* cleanup_finished that releases every node under a terminal future, whether or
\* not it still holds its resources.
cleanup_finished_Rescan(state, alive) ==
    IF alive["then_signal_fence"] /\ state["then_signal_fence"] \in Terminal
    THEN FutureNodes \ {"then_signal_fence"}
    ELSE {}

\* cleanup_finished on the future of the frame: the nodes it releases.  Once the
\* future is terminal, the nodes it was composed over give up what they hold.
cleanup_finished(state, alive) ==
    IF alive["then_signal_fence"] /\ state["then_signal_fence"] \in Terminal
    THEN { n \in FutureNodes \ {"then_signal_fence"} : alive[n] }
    ELSE {}

\* The holders after the nodes of `released` gave up their resources.
AfterCleanup(alive, released) ==
    [n \in FutureNodes |-> alive[n] /\ n \notin released]

\* A call of cleanup_finished; it may be made at any time.
CleanupFinished ==
    /\ LET released == cleanup_finished(future_state, future_alive)
       IN  /\ future_alive' = AfterCleanup(future_alive, released)
           /\ future_released' = Release(future_released, released)
    /\ UNCHANGED <<debug_assertions, callVars, bufferVars, future_state, loopVars>>

\* The next frame after Ok(future): the future of this frame, which owns the
\* chain under it, becomes previous_frame_end.
NextFrame ==
    /\ future_alive["then_signal_fence"]
    /\ future_state["then_signal_fence"] # "Absent"
    /\ future_state' = [n \in FutureNodes |->
                           IF n = "previous_frame_end" THEN future_state["then_signal_fence"]
                           ELSE IF n = "acquire_future" THEN "Pending"
                           ELSE "Absent"]
    /\ future_alive' = [n \in FutureNodes |->
                           n \in {"previous_frame_end", "acquire_future"}]
    /\ future_released' = NoRelease
    /\ UNCHANGED <<debug_assertions, callVars, bufferVars, loopVars>>

\* The next frame after Err(_): the stale chain is gone and previous_frame_end is
\* sync::now().
NextFrameAfterError ==
    /\ FlushFailed
    /\ \A n \in FutureNodes : ~future_alive[n]
    /\ future_state' = [n \in FutureNodes |->
                           IF n = "previous_frame_end" THEN "Signaled"
                           ELSE IF n = "acquire_future" THEN "Pending"
                           ELSE "Absent"]
    /\ future_alive' = [n \in FutureNodes |->
                           n \in {"previous_frame_end", "acquire_future"}]
    /\ future_released' = NoRelease
    /\ UNCHANGED <<debug_assertions, callVars, bufferVars, loopVars>>

NextFuture ==
    Compose \/ ThenSignalFenceAndFlush \/ FlushFails \/ DropStaleChain \/ Signal
    \/ Fail \/ CleanupFinished \/ NextFrame \/ NextFrameAfterError

SpecFuture == InitFuture /\ [][NextFuture]_vars

\* The driver finishes, with success or an error, the work that was flushed to
\* it, and a drop that has started runs to its end.
SpecFutureFair ==
    /\ InitFuture
    /\ [][NextFuture]_vars
    /\ WF_vars(Signal \/ Fail)
    /\ WF_vars(DropStaleChain)

----------------------------------------------------------------------------
(* The event loop of examples/src/bin/fullscreen.rs.  `loop` holds the       *)
(* variables the closure captures, what the calls on the window and on the  *)
(* swapchain have made of them, and a record of how those calls were used:  *)
(*   exclusive       the current swapchain holds exclusive fullscreen mode, *)
(*                   acquired on it and not released since                  *)
(*   ever_acquired   exclusive mode was acquired on the current swapchain   *)
(*   stale           recreate_swapchain was set since the current swapchain *)
(*                   was created                                            *)
(*   acquired_stale  acquire_next_image was called on a stale swapchain     *)
(*   misrelease      the last release of exclusive mode that was made on a  *)
(*                   swapchain not holding it, if any                       *)
(* Each handler is a function of this record and of the answers of the      *)
(* window system and of the driver.                                         *)

\* The state when event_loop.run is entered.
LoopStart ==
    [running |-> TRUE, status |-> "Running",
     fullscreen |-> TRUE, focussed |-> TRUE, recreate_swapchain |-> FALSE,
     previous_frame_end |-> "Some",
     window_fullscreen |-> TRUE, minimized |-> FALSE,
     exclusive |-> TRUE, ever_acquired |-> TRUE,
     stale |-> FALSE, acquired_stale |-> FALSE, misrelease |-> "none",
     last |-> [event |-> "none", frame |-> "none"]]

Handled(st, event, frame) == [st EXCEPT !.last = [event |-> event, frame |-> frame]]

\* A panic ends the loop.
Panicked(st, event, msg) ==
    [Handled(st, event, msg) EXCEPT !.status = "Panicked"]

\* recreate_swapchain = true
SetRecreate(st) == [st EXCEPT !.recreate_swapchain = TRUE, !.stale = TRUE]

\* swapchain.acquire_full_screen_exclusive_mode().unwrap()
acquire_full_screen_exclusive_mode(st) ==
    [st EXCEPT !.exclusive = TRUE, !.ever_acquired = TRUE]

\* swapchain.release_full_screen_exclusive_mode().unwrap()
release_full_screen_exclusive_mode(st) ==
    [st EXCEPT !.exclusive = FALSE,
               !.misrelease = IF st.exclusive THEN @
                              ELSE IF st.ever_acquired THEN "released twice"
                              ELSE "never acquired"]

\* WindowEvent::CloseRequested, and Escape released
OnExit(st, event) == [Handled(st, event, "none") EXCEPT !.status = "Exit"]

\* WindowEvent::Focused(focus)
OnFocused(st, focus) ==
    LET s1 == Handled([st EXCEPT !.focussed = focus], "Focused", "none")
    IN  IF focus
        THEN SetRecreate([s1 EXCEPT !.minimized = FALSE])
        ELSE IF s1.fullscreen
        THEN [release_full_screen_exclusive_mode(s1) EXCEPT !.minimized = TRUE]
        ELSE s1

\* WindowEvent::Resized(_)
OnResized(st) == SetRecreate(Handled(st, "Resized", "none"))

\* F released
OnKeyF(st) ==
    [SetRecreate(Handled(st, "Key(F)", "none")) EXCEPT !.fullscreen = ~st.fullscreen]

\* What the window system and the driver answer during one redraw.
RedrawAnswers ==
    [recreate : {"Ok", "UnsupportedDimensions", "Error"},
     acquire : {"Ok", "Suboptimal", "OutOfDate", "Error"},
     execute : {"Ok", "Error"},
     flush : {"Ok", "OutOfDate", "Error"}]

\* The first part of the block under `if recreate_swapchain`: the window is
\* switched to what `fullscreen` asks for.
SwitchWindow(st) ==
    IF ~st.window_fullscreen
    THEN IF st.fullscreen
         THEN [st |-> [st EXCEPT !.window_fullscreen = TRUE], acquire_fullscreen |-> TRUE]
         ELSE [st |-> st, acquire_fullscreen |-> FALSE]
    ELSE IF ~st.fullscreen
         THEN [st |-> release_full_screen_exclusive_mode(
                         [st EXCEPT !.window_fullscreen = FALSE]),
               acquire_fullscreen |-> FALSE]
         ELSE [st |-> st, acquire_fullscreen |-> FALSE]

\* The block that clears recreate_swapchain when the dimensions are unsupported.
RecreateSwapchain_ClearsWhenUnsupported(st, answer) ==
    LET w == SwitchWindow(st)
        fresh == [w.st EXCEPT !.exclusive = FALSE, !.ever_acquired = FALSE,
                              !.stale = FALSE]
        acquired == IF w.acquire_fullscreen
                    THEN acquire_full_screen_exclusive_mode(fresh) ELSE fresh
    IN  CASE answer = "UnsupportedDimensions" ->
               [st |-> Handled([w.st EXCEPT !.recreate_swapchain = FALSE],
                               "RedrawEventsCleared", "UnsupportedDimensions"),
                go |-> FALSE]
          [] answer = "Error" ->
               [st |-> Panicked(w.st, "RedrawEventsCleared",
                                "Failed to recreate swapchain"),
                go |-> FALSE]
          [] OTHER ->
               [st |-> [acquired EXCEPT !.recreate_swapchain = FALSE], go |-> TRUE]

\* The block under `if recreate_swapchain`.  `go` tells whether the handler goes
\* on after it.  A new swapchain holds no exclusive mode and is not stale.
RecreateSwapchain(st, answer) ==
    LET w == SwitchWindow(st)
        fresh == [w.st EXCEPT !.exclusive = FALSE, !.ever_acquired = FALSE,
                              !.stale = FALSE]
        acquired == IF w.acquire_fullscreen
                    THEN acquire_full_screen_exclusive_mode(fresh) ELSE fresh
    IN  CASE answer = "UnsupportedDimensions" ->
               [st |-> Handled(w.st, "RedrawEventsCleared", "UnsupportedDimensions"),
                go |-> FALSE]
          [] answer = "Error" ->
               [st |-> Panicked(w.st, "RedrawEventsCleared",
                                "Failed to recreate swapchain"),
                go |-> FALSE]
          [] OTHER ->
               [st |-> [acquired EXCEPT !.recreate_swapchain = FALSE], go |-> TRUE]

\* swapchain::acquire_next_image(swapchain.clone(), None) and the match on it.
AcquireNextImage(st, answer) ==
    LET s1 == [st EXCEPT !.acquired_stale = @ \/ st.stale]
    IN  CASE answer = "OutOfDate" ->
               [st |-> Handled(SetRecreate(s1), "RedrawEventsCleared",
                               "AcquireError::OutOfDate"),
                go |-> FALSE]
          [] answer = "Error" ->
               [st |-> Panicked(s1, "RedrawEventsCleared",
                                "Failed to acquire next image"),
                go |-> FALSE]
          [] answer = "Suboptimal" -> [st |-> SetRecreate(s1), go |-> TRUE]
          [] OTHER -> [st |-> s1, go |-> TRUE]

\* The submission whose last arm leaves previous_frame_end empty.
Submit_ErrLeavesNone(st, execute, flush) ==
    LET taken == [st EXCEPT !.previous_frame_end = "None"]
    IN  CASE execute = "Error" ->
               Panicked(taken, "RedrawEventsCleared", "then_execute(..).unwrap()")
          [] flush = "Ok" ->
               Handled([taken EXCEPT !.previous_frame_end = "Some"],
                       "RedrawEventsCleared", "Ok(future)")
          [] flush = "OutOfDate" ->
               Handled(SetRecreate([taken EXCEPT !.previous_frame_end = "Some"]),
                       "RedrawEventsCleared", "FlushError::OutOfDate")
          [] OTHER ->
               Handled(taken, "RedrawEventsCleared", "Failed to flush future")

\* previous_frame_end.take().unwrap() .. then_signal_fence_and_flush() and the
\* match on its result.
Submit(st, execute, flush) ==
    LET taken == [st EXCEPT !.previous_frame_end = "None"]
    IN  CASE execute = "Error" ->
               Panicked(taken, "RedrawEventsCleared", "then_execute(..).unwrap()")
          [] flush = "Ok" ->
               Handled([taken EXCEPT !.previous_frame_end = "Some"],
                       "RedrawEventsCleared", "Ok(future)")
          [] flush = "OutOfDate" ->
               Handled(SetRecreate([taken EXCEPT !.previous_frame_end = "Some"]),
                       "RedrawEventsCleared", "FlushError::OutOfDate")
          [] OTHER ->
               Handled([taken EXCEPT !.previous_frame_end = "Some"],
                       "RedrawEventsCleared", "Failed to flush future")

\* Event::RedrawEventsCleared
RedrawEventsCleared(st, answers) ==
    IF st.fullscreen /\ ~st.focussed
    THEN Handled(st, "RedrawEventsCleared", "not focussed")
    ELSE IF st.previous_frame_end = "None"
    THEN Panicked(st, "RedrawEventsCleared", "unwrap on a None value")
    ELSE LET r == IF st.recreate_swapchain
                  THEN RecreateSwapchain(st, answers.recreate)
                  ELSE [st |-> st, go |-> TRUE]
         IN  IF ~r.go THEN r.st
             ELSE LET a == AcquireNextImage(r.st, answers.acquire)
                  IN  IF ~a.go THEN a.st
                      ELSE Submit(a.st, answers.execute, answers.flush)

InitLoop ==
    /\ debug_assertions \in BOOLEAN
    /\ call = [fn |-> "none"]
    /\ ret = NotCalled
    /\ BuffersIdle
    /\ FuturesIdle
    /\ loop = LoopStart

LoopIdleVars == <<debug_assertions, callVars, bufferVars, futureVars>>

LoopExit ==
    /\ loop.status = "Running"
    /\ \E event \in {"CloseRequested", "Key(Escape)"} : loop' = OnExit(loop, event)
    /\ UNCHANGED LoopIdleVars

\* The window system reports the loss of focus of a window that had it.
LoopFocused ==
    /\ loop.status = "Running"
    /\ \E focus \in BOOLEAN :
          /\ ~focus => loop.focussed
          /\ loop' = OnFocused(loop, focus)
    /\ UNCHANGED LoopIdleVars

LoopResized ==
    /\ loop.status = "Running"
    /\ loop' = OnResized(loop)
    /\ UNCHANGED LoopIdleVars

LoopKeyF ==
    /\ loop.status = "Running"
    /\ loop' = OnKeyF(loop)
    /\ UNCHANGED LoopIdleVars

LoopRedrawEventsCleared ==
    /\ loop.status = "Running"
    /\ \E answers \in RedrawAnswers : loop' = RedrawEventsCleared(loop, answers)
    /\ UNCHANGED LoopIdleVars

\* Any other event: `_ => ()`.
LoopOther ==
    /\ loop.status = "Running"
    /\ loop' = Handled(loop, "other", "none")
    /\ UNCHANGED LoopIdleVars

NextLoop ==
    LoopExit \/ LoopFocused \/ LoopResized \/ LoopKeyF \/ LoopRedrawEventsCleared
    \/ LoopOther

SpecLoop == InitLoop /\ [][NextLoop]_vars

----------------------------------------------------------------------------
(* Claims about UnsafeBuffer::new *)

NewReturned == ret # NotCalled /\ call.fn = "UnsafeBuffer::new"

SparseErrors ==
    { "SparseBindingFeatureNotEnabled", "SparseResidencyBufferFeatureNotEnabled",
      "SparseResidencyAliasedFeatureNotEnabled" }

IsSparseError(res) == res.tag = "Err" /\ res.err \in SparseErrors

SparsePanics ==
    { "Can't enable sparse residency without enabling sparse binding as well",
      "Can't enable sparse aliasing without enabling sparse binding as well" }

\* C1: new called with sparse = false and sparse_residency or sparse_aliased = true
\* panics and returns neither Ok nor Err, whatever the device features, the size,
\* the usage and the sharing mode.
C1_SparseMisconfigurationPanics ==
    (NewReturned /\ ~call.sparse.sparse
        /\ (call.sparse.sparse_residency \/ call.sparse.sparse_aliased))
    => (ret.res.tag = "Panic" /\ ret.res.msg \in SparsePanics)

C1_Witness ==
    /\ NewReturned
    /\ call.sparse = [sparse |-> FALSE, sparse_residency |-> FALSE, sparse_aliased |-> TRUE]
    /\ call.device.enabled_features = Features_all
    /\ call.sharing.mode = "Concurrent"
    /\ ret.res.tag = "Panic"

\* The capabilities a sparse level requests and the device lacks, in the order
\* binding, residency, aliasing.
MissingCapabilities(features, sparse) ==
    SelectSeq(
        << [requested |-> sparse.sparse, enabled |-> features.sparse_binding,
            err |-> "SparseBindingFeatureNotEnabled"],
           [requested |-> sparse.sparse_residency,
            enabled |-> features.sparse_residency_buffer,
            err |-> "SparseResidencyBufferFeatureNotEnabled"],
           [requested |-> sparse.sparse_aliased,
            enabled |-> features.sparse_residency_aliased,
            err |-> "SparseResidencyAliasedFeatureNotEnabled"] >>,
        LAMBDA c : c.requested /\ ~c.enabled)

\* C2: with sparse = true, new returns the error of the first capability, in the
\* order binding, residency, aliasing, that is requested and not enabled, and no
\* sparse-feature error when every requested capability is enabled.
C2_FirstMissingSparseFeature ==
    (NewReturned /\ call.sparse.sparse)
    => LET missing == MissingCapabilities(call.device.enabled_features, call.sparse)
       IN  IF missing # <<>>
           THEN ret.res = Err(Head(missing).err)
           ELSE ~IsSparseError(ret.res)

C2_Witness ==
    /\ NewReturned
    /\ call.sparse = [sparse |-> TRUE, sparse_residency |-> TRUE, sparse_aliased |-> TRUE]
    /\ call.device.enabled_features =
          [sparse_binding |-> TRUE, sparse_residency_buffer |-> TRUE,
           sparse_residency_aliased |-> FALSE]
    /\ ret.res = Err("SparseResidencyAliasedFeatureNotEnabled")

\* C3: with SparseLevel::none() new never returns one of the three sparse-feature
\* errors, whatever features the device enables.
C3_NoSparseErrorWithoutSparse ==
    (NewReturned /\ call.sparse = SparseLevel_none) => ~IsSparseError(ret.res)

C3_Witness ==
    /\ NewReturned
    /\ call.sparse = SparseLevel_none
    /\ call.device.enabled_features = Features_none
    /\ ret.res.tag = "Ok"

NewOk == NewReturned /\ ret.res.tag = "Ok"

\* What the driver answered to GetBufferMemoryRequirements during the call.
DriverOutput == ret.native[2].output

\* The device limits that apply to a usage.
ApplicableLimits(usage, limits) ==
    (IF "uniform_texel_buffer" \in usage \/ "storage_texel_buffer" \in usage
     THEN {limits.min_texel_buffer_offset_alignment} ELSE {})
    \cup (IF "storage_buffer" \in usage
          THEN {limits.min_storage_buffer_offset_alignment} ELSE {})
    \cup (IF "uniform_buffer" \in usage
          THEN {limits.min_uniform_buffer_offset_alignment} ELSE {})

SetMax(S) == CHOOSE m \in S : \A x \in S : m >= x

\* C6: on success the returned alignment is the maximum of the alignment the
\* driver reported and of the device limits of the usage flags that are set.
C6_AlignmentIsMaximum ==
    NewOk => ret.res.val.mem_reqs.alignment =
                SetMax({DriverOutput.alignment}
                       \cup ApplicableLimits(call.usage, call.device.limits))

\* A limit above the result whose usage flag is not set, and a limit that widened.
C6_Witness ==
    /\ NewOk
    /\ call.usage = {"storage_buffer"}
    /\ call.device.limits.min_storage_buffer_offset_alignment > DriverOutput.alignment
    /\ call.device.limits.min_uniform_buffer_offset_alignment
          > call.device.limits.min_storage_buffer_offset_alignment
    /\ ret.res.val.mem_reqs.alignment
          = call.device.limits.min_storage_buffer_offset_alignment

\* C7: on success the returned MemoryRequirements.size is at least the size asked.
C7_SizeAtLeastRequested ==
    NewOk => ret.res.val.mem_reqs.size >= call.size

C7_Witness ==
    /\ NewOk
    /\ call.size = MaxSize
    /\ call.usage = AlignedUsageFields
    /\ ret.res.val.mem_reqs.size = call.size

----------------------------------------------------------------------------
(* Claims about the validity checkers *)

IndexReturned == ret # NotCalled /\ call.fn = "check_index_buffer"

\* C4: for a buffer of the checking device, check_index_buffer returns
\* Err(BufferMissingUsage) exactly when the buffer was created without the
\* index-buffer usage, and otherwise Ok with num_indices the number of elements
\* the buffer was created from.
C4_IndexUsageAndCount ==
    (IndexReturned /\ call.owner = call.device)
    => /\ (ret.res = Err("BufferMissingUsage")) <=> ("index_buffer" \notin call.usage)
       /\ ("index_buffer" \in call.usage)
             => ret.res = Ok([num_indices |-> call.elements])

\* 500 u32 elements with the index usage give num_indices = 500.
C4_Witness ==
    /\ IndexReturned
    /\ call.owner = call.device
    /\ call.usage = {"index_buffer"}
    /\ call.buffer.content = "u32"
    /\ call.elements = TestLen
    /\ ret.res = Ok([num_indices |-> 500])

\* C5: check_index_buffer on a buffer of another device panics, also when the
\* buffer lacks the index-buffer usage: it returns neither Ok nor Err.
C5_WrongDevicePanics ==
    (IndexReturned /\ call.owner.id # call.device.id) => ret.res.tag = "Panic"

C5_Witness ==
    /\ IndexReturned
    /\ call.owner.id # call.device.id
    /\ call.usage = {"vertex_buffer"}
    /\ ret.res.tag = "Panic"

PushConstantsReturned == ret # NotCalled /\ call.fn = "check_push_constants_validity"

\* C8: check_push_constants_validity returns Ok(()) exactly when the layout's
\* is_compatible holds of the push constants, and Err(IncompatiblePushConstants)
\* otherwise: never another value.
C8_PushConstantsAllOrNothing ==
    PushConstantsReturned
    => /\ ret.res \in {Ok("()"), Err("IncompatiblePushConstants")}
       /\ (ret.res = Ok("()"))
             <=> (call.push_constants \in call.pipeline.compatible)

C8_Witness ==
    /\ PushConstantsReturned
    /\ call.pipeline.compatible = {"f32", "[f32; 4]"}
    /\ call.push_constants = "[[f32; 4]; 4]"
    /\ ret.res = Err("IncompatiblePushConstants")

----------------------------------------------------------------------------
(* Claims about the future chain *)

BothSignaled ==
    /\ future_state["previous_frame_end"] = "Signaled"
    /\ future_state["acquire_future"] = "Signaled"

\* C9: in join(A, B).then_execute(C), C is Signaled only if A and B are; the join
\* is Signaled only if A and B are, and while it lives and is not yet Signaled it
\* keeps A and B alive.
C9_ExecuteAfterBothJoined ==
    /\ future_state["then_execute"] = "Signaled" => BothSignaled
    /\ future_state["join"] = "Signaled" => BothSignaled
    /\ (future_alive["join"] /\ future_state["join"] # "Signaled")
          => (future_alive["previous_frame_end"] /\ future_alive["acquire_future"])

\* The draw has completed, after the previous frame and the acquisition.
C9_Witness ==
    /\ future_state["then_execute"] = "Signaled"
    /\ future_state["then_swapchain_present"] = "Flushed"
    /\ BothSignaled
    /\ future_alive["join"]

----------------------------------------------------------------------------
(* Claims about the life of an UnsafeBuffer *)

\* C10: the handle of a wrapper is destroyed exactly once, when the wrapper is
\* dropped, and no native call names the handle after that; this holds after any
\* sequence of new, bind_memory and queries.
C10_DestroyedOnceOnDrop ==
    \A h \in Handles :
        /\ buffers[h].state = "Dropped" => native[h].destroyed = 1
        /\ buffers[h].state = "Alive" => (native[h].created /\ native[h].destroyed = 0)
        /\ buffers[h].state = "None" => native[h].destroyed = 0
        /\ native[h].stale = 0

\* A wrapper dropped after a bind, while another one is still in use.
C10_Witness ==
    \E h, g \in Handles :
        /\ buffers[h].state = "Dropped"
        /\ native[h].bound = 1
        /\ native[h].destroyed = 1
        /\ buffers[g].state = "Alive"
        /\ last.op = "bind_memory" /\ last.handle = g /\ last.res.tag = "Ok"

\* C11 as stated: no buffer is ever bound more than once, whatever calls of
\* bind_memory are made on its wrapper.
C11_AtMostOneBind ==
    \A h \in Handles : native[h].bound <= 1

\* C11: bind_memory keeps no record of an earlier bind and binds again on every
\* call that passes its assertions; what the wrapper guarantees is one native
\* bind per call: a step binds a buffer at most once, and only as a call of
\* bind_memory on that buffer's live wrapper that returns Ok.
C11_OneBindPerCall ==
    [][\A h \in Handles :
          /\ native'[h].bound <= native[h].bound + 1
          /\ native'[h].bound > native[h].bound
                => /\ buffers[h].state = "Alive"
                   /\ last'.op = "bind_memory" /\ last'.handle = h
                   /\ last'.res.tag = "Ok"]_vars

\* A second bind_memory on the same wrapper has bound its buffer a second time.
C11_Witness ==
    \E h \in Handles :
        /\ native[h].bound = 2
        /\ buffers[h].state = "Alive"
        /\ last.op = "bind_memory" /\ last.handle = h /\ last.res.tag = "Ok"

----------------------------------------------------------------------------
(* Claims about bind_memory as a function *)

BindReturned == call.fn = "UnsafeBuffer::bind_memory" /\ ret # NotCalled

\* The native bind is among the calls bind_memory made.
BindIssued ==
    \E i \in DOMAIN ret.native : ret.native[i].fn = "BindBufferMemory"

MultipleOf(n, a) == \E k \in 0..n : n = k * a

\* The four conditions of C14 on the requirements bind_memory queried, the
\* memory, the offset and the limits the usage of the buffer implies.
C14_Conditions ==
    LET reqs == ret.native[1].output
        u == call.self.usage
        l == call.device.limits
    IN  /\ reqs.size + call.offset <= call.memory.size
        /\ MultipleOf(call.offset, reqs.alignment)
        /\ call.memory.memory_type \in
              { id \in 0..(NumMemoryTypes - 1) : HasBit(reqs.memoryTypeBits, id) }
        /\ (u \cap {"BUFFER_USAGE_UNIFORM_TEXEL_BUFFER_BIT",
                     "BUFFER_USAGE_STORAGE_TEXEL_BUFFER_BIT"} # {})
              => MultipleOf(call.offset, l.min_texel_buffer_offset_alignment)
        /\ "BUFFER_USAGE_STORAGE_BUFFER_BIT" \in u
              => MultipleOf(call.offset, l.min_storage_buffer_offset_alignment)
        /\ "BUFFER_USAGE_UNIFORM_BUFFER_BIT" \in u
              => MultipleOf(call.offset, l.min_uniform_buffer_offset_alignment)

\* C14: where debug assertions are on, bind_memory makes the native bind call
\* exactly when the required size fits in the memory after the offset, the
\* offset is a multiple of the reported alignment, the memory's type is in the
\* requirement bitmask and the offset is a multiple of every limit the usage
\* implies; otherwise it panics without having made the call.
C14_BindOnlyIfChecksPass ==
    (BindReturned /\ debug_assertions) =>
        /\ BindIssued <=> C14_Conditions
        /\ ~C14_Conditions => ret.res.tag = "Panic"

\* A bind at a non-zero offset that passes every check.
C14_Witness ==
    /\ BindReturned /\ debug_assertions
    /\ call.offset > 0
    /\ call.self.usage = usage_to_bits({"uniform_buffer"})
    /\ call.device.limits.min_uniform_buffer_offset_alignment = 2
    /\ ret.native[1].output.alignment = 2
    /\ BindIssued
    /\ ret.res.tag = "Ok"

----------------------------------------------------------------------------
(* Claims that relate new to bind_memory *)

\* C16: for a buffer new returned, every offset that is a multiple of the
\* alignment in the returned MemoryRequirements passes the alignment assertions
\* of bind_memory: it is a multiple of the alignment the driver reported and of
\* every limit the usage of the buffer implies.
C16_ReturnedAlignmentPassesBind ==
    NewOk =>
      \A k \in 0..MaxMultiple :
        LET offset == k * ret.res.val.mem_reqs.alignment
        IN  /\ offset % DriverOutput.alignment = 0
            /\ BindLimitsHold(ret.res.val.obj, call.device.limits, offset)

\* Two limits apply, both above the alignment the driver reported and different.
C16_Witness ==
    /\ NewOk
    /\ call.usage = {"storage_texel_buffer", "uniform_buffer"}
    /\ DriverOutput.alignment = 1
    /\ call.device.limits.min_texel_buffer_offset_alignment = 2
    /\ call.device.limits.min_uniform_buffer_offset_alignment = 4
    /\ ret.res.val.mem_reqs.alignment = 4

\* CreateBuffer succeeded during the call of new: the driver made a handle.
HandleCreated ==
    \E i \in DOMAIN ret.native :
        ret.native[i].fn = "CreateBuffer" /\ ret.native[i].result = "SUCCESS"

\* C17: however new returns, a handle the driver created during the call is
\* owned by the UnsafeBuffer that new returns (whose drop destroys it), and the
\* sparse panics and sparse feature errors come before any native call.
C17_NoHandleLeak ==
    NewReturned =>
        /\ HandleCreated =>
              /\ ret.res.tag = "Ok"
              /\ ret.res.val.obj.buffer = ret.native[1].buffer
        /\ ((ret.res.tag = "Panic" /\ ret.res.msg \in SparsePanics)
              \/ IsSparseError(ret.res)) => ret.native = <<>>

----------------------------------------------------------------------------
(* Claims about cleanup_finished and a stale chain *)

\* C12: a call of cleanup_finished that follows another one, with no submission
\* and no progress of the driver in between, releases nothing and leaves the
\* holders as they are; no node's resources are released twice.
C12_CleanupIdempotent ==
    LET first == cleanup_finished(future_state, future_alive)
        after == AfterCleanup(future_alive, first)
        second == cleanup_finished(future_state, after)
    IN  /\ second = {}
        /\ AfterCleanup(after, second) = after
        /\ \A n \in FutureNodes : future_released[n] <= 1

\* cleanup_finished has released the chain under the terminal future of the
\* frame, which is still held; a further call finds nothing to release.
C12_Witness ==
    /\ future_alive["then_signal_fence"]
    /\ future_state["then_signal_fence"] = "Signaled"
    /\ \A n \in FutureNodes \ {"then_signal_fence"} :
          ~future_alive[n] /\ future_released[n] = 1
    /\ cleanup_finished(future_state, future_alive) = {}

\* Every node of the chain is terminal and has given up what it held, once.
StaleChainReleased ==
    /\ FlushFailed
    /\ \A n \in FutureNodes : future_state[n] \in Terminal /\ ~future_alive[n]
    /\ \A n \in FutureNodes \ {"then_signal_fence"} : future_released[n] = 1

----------------------------------------------------------------------------
(* Claims about the event loop of the fullscreen example *)

\* C15: no image is acquired from a swapchain for which a recreation was asked
\* (a resize, focus regained, F, OutOfDate or suboptimal on acquire, OutOfDate on
\* flush): the redraw recreates the swapchain before it acquires; and
\* recreate_swapchain stays set until a new swapchain has replaced that one, so
\* unsupported dimensions leave it set.
C15_NoAcquireFromStaleSwapchain ==
    /\ ~loop.acquired_stale
    /\ loop.stale <=> loop.recreate_swapchain
    /\ (loop.last.event = "RedrawEventsCleared"
          /\ loop.last.frame = "UnsupportedDimensions") => loop.recreate_swapchain

\* A frame was acquired and submitted from a swapchain made by a recreation (no
\* exclusive mode was ever acquired on it), with the flag cleared.
C15_Witness ==
    /\ loop.last = [event |-> "RedrawEventsCleared", frame |-> "Ok(future)"]
    /\ ~loop.recreate_swapchain
    /\ ~loop.ever_acquired
    /\ loop.fullscreen /\ loop.focussed

\* C18: while the loop runs previous_frame_end holds a future between any two
\* handlers, so no redraw finds it empty, and no unwrap of it has panicked.
C18_PreviousFrameEndIsSome ==
    /\ loop.status = "Running" => loop.previous_frame_end = "Some"
    /\ ~(loop.status = "Panicked" /\ loop.last.frame = "unwrap on a None value")

\* A redraw whose flush failed with another error than OutOfDate has put
\* sync::now() back.
C18_Witness ==
    /\ loop.status = "Running"
    /\ loop.last = [event |-> "RedrawEventsCleared", frame |-> "Failed to flush future"]
    /\ loop.previous_frame_end = "Some"

\* C19: release_full_screen_exclusive_mode is only ever called on a swapchain
\* that holds exclusive mode: never twice without an acquire in between, never
\* on a swapchain on which it was not acquired.
C19_ReleaseOnlyWhenHeld ==
    loop.misrelease = "none"

====
